---- MODULE Spec2Model ----
(***************************************************************************)
(* bgp-exporter (src/main.go): the poll goroutine of recordMetrics reads   *)
(* the text of "show ip bgp neighbors", parseBGP walks it line by line and *)
(* upserts one BgpNeighbor per neighbor into the process-wide slice        *)
(* bgpNeighbors, and the export loop copies every stored record into four  *)
(* Prometheus gauge vectors labelled by the neighbor's address.            *)
(*                                                                         *)
(* Texts are modelled by their tokens.  A run of digits is a sequence of   *)
(* digits (<<0,7>> is "07"); a run matched by [\d.]+ is the sequence of    *)
(* its dot-separated digit runs (<< <<1>>,<<2>>,<<3>> >> is "1.2.3"); the  *)
(* empty string is <<>>.  A line is the record of what the four regular    *)
(* expressions of lines 68-71 find in it.                                  *)
(*                                                                         *)
(* The text getBgpNeighbors returns is read by parseBGP one line at a      *)
(* time and by nothing else, so the model lets each line be any line at    *)
(* the moment the loop of line 106 reaches it.  parseBGP's locals exist    *)
(* from its call to its return.  One With(...).Set(...) is one step: the   *)
(* HTTP handler of line 179 may read the gauges between any two of them.   *)
(***************************************************************************)
EXTENDS Integers, Sequences, FiniteSets, TLC

\* ------------------------------------------------------------------ bounds
MaxLines == 6      \* lines of vtysh output read since the process started
MaxEntries == 2    \* neighbor entries read, when vtysh prints complete entries only

\* ------------------------------------------------ text tokens and inputs
NilString == << <<-1>> >>          \* "<nil>" (what IP.String() gives for a nil IP):
                                   \* a text of characters that are neither digit nor dot
EmptyString == <<>>                \* ""

A1 == << <<1,0>>, <<0>>, <<0>>, <<1>> >>     \* "10.0.0.1"
A2 == << <<1,0>>, <<0>>, <<0>>, <<2>> >>     \* "10.0.0.2"
ABad == << <<1>>, <<2>>, <<3>> >>            \* "1.2.3": matches [\d.]+, is no address
Addrs == {A1, A2, ABad}
Words == {"Established", "Opensent", "Unknown"}
PrefixDigits == { <<0,7>> }                              \* "07"
CounterDigits == { << <<1,2>>, <<1>> >>, << <<3>>, <<0>> >> }   \* ("12","1"), ("3","0")

\* A line, as the regular expressions see it: which one matches (the four
\* patterns exclude each other: only the header has no leading blank, and
\* the three others differ in their fixed words) and its submatches.
Line(kind, addr, word, d1, d2) ==
    [kind |-> kind, addr |-> addr, word |-> word, d1 |-> d1, d2 |-> d2]
Header(a) == Line("header", a, "", <<>>, <<>>)
StateLine(w) == Line("state", <<>>, w, <<>>, <<>>)
PrefixLine(d) == Line("prefixes", <<>>, "", d, <<>>)
CounterLine(e, d) == Line("counters", <<>>, "", e, d)
OtherLine == Line("other", <<>>, "", <<>>, <<>>)
NoLine == Line("none", <<>>, "", <<>>, <<>>)

Lines ==
    {Header(a) : a \in Addrs} \cup {StateLine(w) : w \in Words}
      \cup {PrefixLine(d) : d \in PrefixDigits}
      \cup {CounterLine(c[1], c[2]) : c \in CounterDigits}
      \cup {OtherLine}

\* -------------------------------------------------------------- conversions
RECURSIVE DecValue(_)
DecValue(d) == IF d = <<>> THEN 0 ELSE 10 * DecValue(SubSeq(d, 1, Len(d) - 1)) + d[Len(d)]

RECURSIVE Digits(_)
Digits(n) == IF n < 10 THEN <<n>> ELSE Append(Digits(n \div 10), n % 10)

\* strconv.ParseFloat of a run of digits (exact below 2^53).
ParseFloat(d) == DecValue(d)

\* net.ParseIP on a text without ':' : four decimal fields, each 0..255 and
\* without a leading zero; nil (a slice of length 0) otherwise.
NilIP == <<>>
ValidField(f) == /\ Len(f) >= 1
                 /\ (Len(f) > 1 => f[1] # 0)
                 /\ DecValue(f) <= 255
ParseIP(s) == IF Len(s) = 4 /\ \A i \in 1..4 : ValidField(s[i])
              THEN [i \in 1..4 |-> DecValue(s[i])]
              ELSE NilIP

\* net.IP.String()
IPString(ip) == IF Len(ip) = 0 THEN NilString ELSE [i \in 1..4 |-> Digits(ip[i])]

\* The switch of lines 126-141: `var state float64` stays 0 for any other word.
StateOrdinal(word) ==
    CASE word = "Idle" -> 1
      [] word = "Connect" -> 2
      [] word = "Active" -> 3
      [] word = "Opensent" -> 4
      [] word = "Openconfirm" -> 5
      [] word = "Established" -> 6
      [] OTHER -> 0

\* ------------------------------------------------------------------ records
BgpNeighbor(ip, st, ap, ce, cd) ==
    [IP |-> ip, State |-> st, AcceptedPrefixes |-> ap,
     ConnectionsEstablished |-> ce, ConnectionsDropped |-> cd]
NewBgpNeighbor == BgpNeighbor(NilIP, 0, 0, 0, 0)    \* new(BgpNeighbor)

\* A *BgpNeighbor: <<>> is nil, <<r>> points to r.
NilPtr == <<>>

VARIABLES
    pc,                 \* where the poll goroutine is
    nlines,             \* lines consumed since the process started
    line,               \* the loop variable of parseBGP: the line last consumed
    neigh,              \* parseBGP's neigh
    bgpNeigh,           \* parseBGP's bgpNeigh
    bgpNeighbors,       \* the process-wide slice
    bgpNeighborState,                    \* the four gauge vectors: label -> value
    bgpNeighborAcceptedPrefixes,
    bgpNeighborConnectionsEstablished,
    bgpNeighborConnectionsDropped,
    ex,                 \* <<index into bgpNeighbors, gauges already set>> of the export loop
    \* History variables: no action reads them to decide what the program does.
    seen,               \* the lines of the current text consumed so far, kept while
                        \* they begin a block of complete entries, else Broken
    latest,             \* per kind, the last line of that kind since the last header
    commits,            \* the records the current parseBGP call has committed
    sinceHeader,        \* how many of them since the last header
    plain,              \* neigh, bgpNeigh, bgpNeighbors and commits as parseBGP would
                        \* hold them had the texts had no unrecognized line
    left,               \* <<neigh, bgpNeigh>> as the previous parseBGP call left them
    everCommitted       \* every record committed since the process started

parser == <<line, neigh, bgpNeigh>>
history == <<seen, latest, commits, sinceHeader, plain, left>>
gauges == <<bgpNeighborState, bgpNeighborAcceptedPrefixes,
            bgpNeighborConnectionsEstablished, bgpNeighborConnectionsDropped>>
vars == <<pc, nlines, parser, bgpNeighbors, gauges, ex, history, everCommitted>>

EmptyVec == [l \in {} |-> 0]

\* ------------------------------------------------------------------ history
\* A complete neighbor entry is a header with a valid address, a state line
\* with one of the six state names, an accepted-prefixes line and a
\* connection-counters line, in that order.
StateNames == {"Idle", "Connect", "Active", "Opensent", "Openconfirm", "Established"}
EntryKinds == <<"header", "state", "prefixes", "counters">>
FitsEntry(l, k) ==
    /\ l.kind = EntryKinds[k]
    /\ (k = 1 => ParseIP(l.addr) # NilIP)
    /\ (k = 2 => l.word \in StateNames)
Broken == <<NoLine>>
seenAfter(l) ==
    IF seen # Broken /\ FitsEntry(l, (Len(seen) % 4) + 1) THEN Append(seen, l) ELSE Broken

NoLatest == [header |-> NoLine, state |-> NoLine, prefixes |-> NoLine, counters |-> NoLine]
latestAfter(l) ==
    CASE l.kind = "header" -> [NoLatest EXCEPT !.header = l]
      [] l.kind = "other" -> latest
      [] OTHER -> IF latest.header = NoLine THEN latest ELSE [latest EXCEPT ![l.kind] = l]

NoPlain(store) ==
    [neigh |-> EmptyString, bgpNeigh |-> NilPtr, bgpNeighbors |-> store, commits |-> <<>>]

NoHistory ==
    /\ seen = <<>>
    /\ latest = NoLatest
    /\ commits = <<>>
    /\ sinceHeader = 0
    /\ plain = NoPlain(<<>>)
    /\ left = <<EmptyString, NilPtr>>

Init ==
    /\ pc = "acquire"
    /\ nlines = 0
    /\ line = NoLine
    /\ neigh = EmptyString
    /\ bgpNeigh = NilPtr
    /\ bgpNeighbors = <<>>
    /\ bgpNeighborState = EmptyVec
    /\ bgpNeighborAcceptedPrefixes = EmptyVec
    /\ bgpNeighborConnectionsEstablished = EmptyVec
    /\ bgpNeighborConnectionsDropped = EmptyVec
    /\ ex = <<1, 0>>
    /\ NoHistory
    /\ everCommitted = {}

\* ------------------------------------------------------------ parseBGP body
\* Lines 107-111.
neighAfterHeader(l) == IF l.kind = "header" THEN l.addr ELSE neigh

\* Faulty variant: the header takes up the record the store holds for the address.
ptrAfterHeaderStored(l) ==
    IF l.kind # "header" THEN bgpNeigh
    ELSE IF \E i \in 1..Len(bgpNeighbors) : IPString(bgpNeighbors[i].IP) = l.addr
         THEN <<bgpNeighbors[CHOOSE i \in 1..Len(bgpNeighbors) :
                                IPString(bgpNeighbors[i].IP) = l.addr]>>
         ELSE <<NewBgpNeighbor>>

\* Faulty variant: a record is allocated whenever there is none, header or not.
ptrAfterHeaderAlways(l) ==
    IF l.kind = "header" \/ bgpNeigh = NilPtr THEN <<NewBgpNeighbor>> ELSE bgpNeigh

\* Line 110.
ptrAfterHeader(l) == IF l.kind = "header" THEN <<NewBgpNeighbor>> ELSE bgpNeigh

\* Faulty variant: the assignment of line 142 sits outside the if of line 116.
recAfterLineResetting(l, n, r) ==
    LET r1 == [r EXCEPT !.IP = ParseIP(n)]
        r2 == [r1 EXCEPT !.State = IF l.kind = "state" THEN StateOrdinal(l.word) ELSE 0]
        r3 == IF l.kind = "prefixes"
              THEN [r2 EXCEPT !.AcceptedPrefixes = ParseFloat(l.d1)] ELSE r2
    IN  IF l.kind = "counters"
        THEN [r3 EXCEPT !.ConnectionsEstablished = ParseFloat(l.d1),
                        !.ConnectionsDropped = ParseFloat(l.d2)]
        ELSE r3

\* Faulty variant: the two counters of line 71 are stored the wrong way round.
recAfterLineSwapped(l, n, r) ==
    LET r1 == [r EXCEPT !.IP = ParseIP(n)]
        r2 == IF l.kind = "state" THEN [r1 EXCEPT !.State = StateOrdinal(l.word)] ELSE r1
        r3 == IF l.kind = "prefixes"
              THEN [r2 EXCEPT !.AcceptedPrefixes = ParseFloat(l.d1)] ELSE r2
    IN  IF l.kind = "counters"
        THEN [r3 EXCEPT !.ConnectionsEstablished = ParseFloat(l.d2),
                        !.ConnectionsDropped = ParseFloat(l.d1)]
        ELSE r3

\* Lines 113-155: the fields of *bgpNeigh after this line (neigh is not "").
recAfterLine(l, n, r) ==
    LET r1 == [r EXCEPT !.IP = ParseIP(n)]
        r2 == IF l.kind = "state" THEN [r1 EXCEPT !.State = StateOrdinal(l.word)] ELSE r1
        r3 == IF l.kind = "prefixes"
              THEN [r2 EXCEPT !.AcceptedPrefixes = ParseFloat(l.d1)] ELSE r2
    IN  IF l.kind = "counters"
        THEN [r3 EXCEPT !.ConnectionsEstablished = ParseFloat(l.d1),
                        !.ConnectionsDropped = ParseFloat(l.d2)]
        ELSE r3

\* Faulty variant: the commit of lines 156-165 sits outside the if of line 150.
commitsOnAnyLine(l, n) == n # EmptyString

\* Line 112 and line 150: does this iteration reach the commit of lines 156-165?
commitsOn(l, n) == n # EmptyString /\ l.kind = "counters"

\* Lines 156-165.
found(store, n) == \E i \in 1..Len(store) : IPString(store[i].IP) = n
\* Faulty variant: the commit appends without the search of lines 157-161.
upsertAppending(store, n, r) == Append(store, r)

upsert(store, n, r) ==
    IF found(store, n)
    THEN [i \in 1..Len(store) |-> IF IPString(store[i].IP) = n THEN r ELSE store[i]]
    ELSE Append(store, r)

\* The loop iteration of lines 106-168 applied to plain, for a line that one
\* of the four patterns matches.
plainAfter(l) ==
    LET n == IF l.kind = "header" THEN l.addr ELSE plain.neigh
        p == IF l.kind = "header" THEN <<NewBgpNeighbor>> ELSE plain.bgpNeigh
    IN  IF l.kind = "other" THEN plain
        ELSE IF n = EmptyString THEN [plain EXCEPT !.neigh = n, !.bgpNeigh = p]
        ELSE LET r == recAfterLine(l, n, p[1])
             IN  [neigh |-> n,
                  bgpNeigh |-> <<r>>,
                  bgpNeighbors |-> IF commitsOn(l, n) THEN upsert(plain.bgpNeighbors, n, r)
                                   ELSE plain.bgpNeighbors,
                  commits |-> IF commitsOn(l, n) THEN Append(plain.commits, r)
                              ELSE plain.commits]

\* ------------------------------------------------------------------ actions
\* Faulty variant: every poll starts from an empty store.
getBgpNeighborsOkResetting ==
    /\ pc = "acquire"
    /\ pc' = "parse"
    /\ line' = NoLine
    /\ neigh' = EmptyString
    /\ bgpNeigh' = NilPtr
    /\ bgpNeighbors' = <<>>
    /\ UNCHANGED <<nlines, gauges, ex, history, everCommitted>>

\* Faulty variant: neigh and bgpNeigh are package-level variables, which keep
\* what the previous call left in them.
getBgpNeighborsOkCarrying ==
    /\ pc = "acquire"
    /\ pc' = "parse"
    /\ line' = NoLine
    /\ neigh' = left[1]
    /\ bgpNeigh' = left[2]
    /\ UNCHANGED <<nlines, bgpNeighbors, gauges, ex, history, everCommitted>>

\* Faulty variant: neigh is a package-level variable and keeps its value,
\* while bgpNeigh is the local of line 104.
getBgpNeighborsOkKeepingNeigh ==
    /\ pc = "acquire"
    /\ pc' = "parse"
    /\ line' = NoLine
    /\ neigh' = left[1]
    /\ bgpNeigh' = NilPtr
    /\ UNCHANGED <<nlines, bgpNeighbors, gauges, ex, history, everCommitted>>

\* Lines 76, 90-100 and 103-105: vtysh ran, parseBGP starts on its output.
getBgpNeighborsOk ==
    /\ pc = "acquire"
    /\ pc' = "parse"
    /\ line' = NoLine
    /\ neigh' = EmptyString
    /\ bgpNeigh' = NilPtr
    /\ UNCHANGED <<nlines, bgpNeighbors, gauges, ex, history, everCommitted>>

\* Lines 95-98: cmd.Run() failed; log.Fatalf ends the process.
getBgpNeighborsFail ==
    /\ pc = "acquire"
    /\ pc' = "exited"
    /\ UNCHANGED <<nlines, parser, bgpNeighbors, gauges, ex, history, everCommitted>>

\* One iteration of the loop of lines 106-168, on the next line of the text.
parseStep(l) ==
    /\ pc = "parse"
    /\ LET n == neighAfterHeader(l)
           p == ptrAfterHeader(l)
       IN  /\ neigh' = n
           /\ IF n = EmptyString
              THEN /\ bgpNeigh' = p
                   /\ UNCHANGED <<bgpNeighbors, commits, everCommitted>>
                   /\ sinceHeader' = 0
              ELSE LET r == recAfterLine(l, n, p[1])
                   IN  /\ bgpNeigh' = <<r>>
                       /\ IF commitsOn(l, n)
                          THEN /\ bgpNeighbors' = upsert(bgpNeighbors, n, r)
                               /\ commits' = Append(commits, r)
                               /\ sinceHeader' = sinceHeader + 1
                               /\ everCommitted' = everCommitted \cup {r}
                          ELSE /\ UNCHANGED <<bgpNeighbors, commits, everCommitted>>
                               /\ sinceHeader' = IF l.kind = "header" THEN 0 ELSE sinceHeader
    /\ line' = l
    /\ nlines' = nlines + 1
    /\ seen' = seenAfter(l)
    /\ latest' = latestAfter(l)
    /\ plain' = plainAfter(l)
    /\ UNCHANGED <<pc, gauges, ex, left>>

\* The next line of the text is any line.
parseLine(l) ==
    /\ nlines < MaxLines
    /\ parseStep(l)

\* The next line of the text continues a block of complete neighbor entries.
parseEntryLine(l) ==
    /\ nlines < 4 * MaxEntries
    /\ seenAfter(l) # Broken
    /\ parseStep(l)

\* The text is exhausted (strings.Split yields at least one line): parseBGP
\* is about to return.
parseEnd ==
    /\ pc = "parse"
    /\ line # NoLine
    /\ pc' = "return"
    /\ UNCHANGED <<nlines, parser, bgpNeighbors, gauges, ex, history, everCommitted>>

\* parseBGP has returned, its locals are gone; the range loop of line 79 starts.
exportStart ==
    /\ pc = "return"
    /\ pc' = "export"
    /\ line' = NoLine
    /\ neigh' = EmptyString
    /\ bgpNeigh' = NilPtr
    /\ ex' = <<1, 0>>
    /\ seen' = <<>>
    /\ latest' = NoLatest
    /\ commits' = <<>>
    /\ sinceHeader' = 0
    /\ plain' = NoPlain(plain.bgpNeighbors)
    /\ left' = <<neigh, bgpNeigh>>
    /\ UNCHANGED <<nlines, bgpNeighbors, gauges, everCommitted>>

Set(vec, label, v) == [l \in DOMAIN vec \cup {label} |-> IF l = label THEN v ELSE vec[l]]

\* One of the four With(...).Set(...) of lines 80-83, for bgpNeighbors[ex[1]].
exportSet ==
    /\ pc = "export"
    /\ ex[1] <= Len(bgpNeighbors)
    /\ LET n == bgpNeighbors[ex[1]]
           label == IPString(n.IP)
       IN  /\ bgpNeighborState' =
                 IF ex[2] = 0 THEN Set(bgpNeighborState, label, n.State)
                 ELSE bgpNeighborState
           /\ bgpNeighborAcceptedPrefixes' =
                 IF ex[2] = 1 THEN Set(bgpNeighborAcceptedPrefixes, label, n.AcceptedPrefixes)
                 ELSE bgpNeighborAcceptedPrefixes
           /\ bgpNeighborConnectionsEstablished' =
                 IF ex[2] = 2
                 THEN Set(bgpNeighborConnectionsEstablished, label, n.ConnectionsEstablished)
                 ELSE bgpNeighborConnectionsEstablished
           /\ bgpNeighborConnectionsDropped' =
                 IF ex[2] = 3
                 THEN Set(bgpNeighborConnectionsDropped, label, n.ConnectionsDropped)
                 ELSE bgpNeighborConnectionsDropped
    /\ ex' = IF ex[2] = 3 THEN <<ex[1] + 1, 0>> ELSE <<ex[1], ex[2] + 1>>
    /\ UNCHANGED <<pc, nlines, parser, bgpNeighbors, history, everCommitted>>

\* Faulty variant: the goroutine empties the store once it has exported it.
exportEndClearing ==
    /\ pc = "export"
    /\ ex[1] > Len(bgpNeighbors)
    /\ pc' = "sleep"
    /\ ex' = <<1, 0>>
    /\ bgpNeighbors' = <<>>
    /\ UNCHANGED <<nlines, parser, gauges, history, everCommitted>>

\* The range loop of line 79 is over: time.Sleep, line 85.
exportEnd ==
    /\ pc = "export"
    /\ ex[1] > Len(bgpNeighbors)
    /\ pc' = "sleep"
    /\ ex' = <<1, 0>>
    /\ UNCHANGED <<nlines, parser, bgpNeighbors, gauges, history, everCommitted>>

\* Line 85 returns: the next iteration of the for of line 75.
sleepDone ==
    /\ pc = "sleep"
    /\ pc' = "acquire"
    /\ UNCHANGED <<nlines, parser, bgpNeighbors, gauges, ex, history, everCommitted>>

Next ==
    \/ getBgpNeighborsOk
    \/ getBgpNeighborsFail
    \/ \E l \in Lines : parseLine(l)
    \/ parseEnd
    \/ exportStart
    \/ exportSet
    \/ exportEnd
    \/ sleepDone

Spec == Init /\ [][Next]_vars

\* The same program when every text vtysh prints is a block of complete
\* neighbor entries.
parseEntriesEnd == Len(seen) % 4 = 0 /\ parseEnd

NextEntries ==
    \/ getBgpNeighborsOk
    \/ getBgpNeighborsFail
    \/ \E l \in Lines : parseEntryLine(l)
    \/ parseEntriesEnd
    \/ exportStart
    \/ exportSet
    \/ exportEnd
    \/ sleepDone

SpecEntries == Init /\ [][NextEntries]_vars

\* The steps the goroutine of lines 74-87 takes by itself: the loops of lines
\* 106 and 79 run to their end and time.Sleep returns.  cmd.Run() (line 94)
\* returns when vtysh exits and no sooner; the code sets no deadline on it
\* (exec.Command, not exec.CommandContext), so nothing is assumed about
\* getBgpNeighborsOk and getBgpNeighborsFail.
ownSteps ==
    \/ \E l \in Lines : parseLine(l)
    \/ parseEnd
    \/ exportStart
    \/ exportSet
    \/ exportEnd
    \/ sleepDone

FairSpec == Spec /\ WF_vars(ownSteps)

\* ================================================================== claims
\* What the text says, read without the parser: the state codes of the help
\* text of line 21, and the numbers the digits and the address denote.
StateCode == [Idle |-> 1, Connect |-> 2, Active |-> 3,
              Opensent |-> 4, Openconfirm |-> 5, Established |-> 6]
Octets(a) == [i \in 1..4 |-> DecValue(a[i])]
Number(d) == DecValue(d)
Identity(r) == IPString(r.IP)
InParse == pc \in {"parse", "return"}
\* This step is an iteration of parseBGP's loop, and it committed a record.
ParseStep == pc = "parse" /\ pc' = "parse"
CommitStep == ParseStep /\ commits' # commits

\* The record the k-th complete entry of the block s describes.
EntryRecord(s, k) ==
    BgpNeighbor(Octets(s[4 * k - 3].addr), StateCode[s[4 * k - 2].word],
                Number(s[4 * k - 1].d1), Number(s[4 * k].d1), Number(s[4 * k].d2))

\* C1: while the text is a block of complete neighbor entries (header with a
\* valid address, state, accepted prefixes, counters), the records parseBGP
\* has committed are exactly those of the complete entries read so far, one
\* per entry, in the order of the text, each with the entry's address, state
\* code, prefix count, established count and dropped count.
C1_EntriesCommitted ==
    (InParse /\ seen # Broken) =>
        commits = [k \in 1..(Len(seen) \div 4) |-> EntryRecord(seen, k)]

\* Two complete entries for two neighbors were read and parseBGP returns.
C1_Witness ==
    /\ pc = "return"
    /\ seen # Broken
    /\ Len(seen) = 8
    /\ Len(commits) = 2
    /\ commits[1].IP # commits[2].IP
    /\ commits[1].State # commits[2].State
    /\ commits[1].ConnectionsEstablished # commits[2].ConnectionsEstablished

\* C2: between two headers a record is committed at most once.
C2_CommitOncePerHeader == sinceHeader <= 1

\* C3: the store changes, and a record is committed, only in an iteration of
\* parseBGP that reads a connection-counters line; so a header with no
\* counters line before the next header or the end of the text commits
\* nothing and leaves the store as it was.
C3_CommitOnlyOnCounters ==
    [][(bgpNeighbors' # bgpNeighbors \/ (commits' # commits /\ commits' # <<>>))
         => (ParseStep /\ line'.kind = "counters")]_vars

\* A header (after another neighbor was committed) got a state line but no
\* counters line before the text ended: nothing was committed for it.
C3_Witness ==
    /\ pc = "return"
    /\ latest.header # NoLine
    /\ latest.state # NoLine
    /\ latest.counters = NoLine
    /\ sinceHeader = 0
    /\ Len(commits) = 1
    /\ bgpNeighbors = commits
    /\ Identity(commits[1]) # latest.header.addr

\* C4: a state line whose word is none of the six state names leaves the
\* State of the record in progress as it was.
C4_UnknownWordKeepsState ==
    [][(ParseStep /\ neigh # EmptyString
          /\ line'.kind = "state" /\ line'.word \notin StateNames)
         => bgpNeigh'[1].State = bgpNeigh[1].State]_vars

\* ---------------------------------------------------------------- C5 .. C10
\* What a scrape of /metrics finds under one label, at any moment: the HTTP
\* handler runs in its own goroutine and takes no lock the poll loop holds.
Exported(x) ==
    BgpNeighbor(CHOOSE ip \in {r.IP : r \in everCommitted} \cup {NilIP} :
                    IPString(ip) = x,
                bgpNeighborState[x], bgpNeighborAcceptedPrefixes[x],
                bgpNeighborConnectionsEstablished[x], bgpNeighborConnectionsDropped[x])
FullLabels ==
    DOMAIN bgpNeighborState \cap DOMAIN bgpNeighborAcceptedPrefixes
      \cap DOMAIN bgpNeighborConnectionsEstablished \cap DOMAIN bgpNeighborConnectionsDropped

\* C5: the four values exported under one address are, at every moment, the
\* four values of one committed record.
C5_NoTornRecord == \A x \in FullLabels \ {NilString} : Exported(x) \in everCommitted

\* C6: a failing vtysh never ends the process.
C6_AcquisitionFailureNotFatal == pc # "exited"

\* C7: the store holds no more records than distinct identities were committed.
C7_OneRecordPerIdentity ==
    Len(bgpNeighbors) <= Cardinality({Identity(r) : r \in everCommitted})

\* C8: a header whose address does not parse opens no record in progress, and
\* no record without a valid address is ever stored.
C8_InvalidAddressIgnored ==
    /\ (InParse /\ neigh # EmptyString) => ParseIP(neigh) # NilIP
    /\ \A i \in 1..Len(bgpNeighbors) : bgpNeighbors[i].IP # NilIP

\* The record the lines read since the last header describe: a field no line
\* gave holds the zero of a fresh record.
Built(lat) ==
    BgpNeighbor(Octets(lat.header.addr),
                IF lat.state = NoLine \/ lat.state.word \notin StateNames
                THEN 0 ELSE StateCode[lat.state.word],
                IF lat.prefixes = NoLine THEN 0 ELSE Number(lat.prefixes.d1),
                Number(lat.counters.d1), Number(lat.counters.d2))

\* C9: a commit for an address the store already holds replaces that stored
\* record by the record built from the lines read since the header, whole:
\* nothing of the old record is kept, and no other record changes.
C9_CommitReplacesWhole ==
    [][(CommitStep /\ \E i \in 1..Len(bgpNeighbors) : Identity(bgpNeighbors[i]) = neigh')
         => bgpNeighbors' =
              [i \in 1..Len(bgpNeighbors) |->
                  IF Identity(bgpNeighbors[i]) = neigh' THEN Built(latest')
                  ELSE bgpNeighbors[i]]]_vars

\* A neighbor stored and exported as Established with 7 prefixes was committed
\* again, by a later text that gave a header and a counters line only: the
\* stored record now has state 0 and 0 prefixes.
C9_Witness ==
    /\ pc = "parse"
    /\ sinceHeader = 1
    /\ latest.state = NoLine
    /\ latest.prefixes = NoLine
    /\ neigh \in FullLabels
    /\ bgpNeighborState[neigh] = 6
    /\ bgpNeighborAcceptedPrefixes[neigh] = 7
    /\ \E i \in 1..Len(bgpNeighbors) :
          /\ Identity(bgpNeighbors[i]) = neigh
          /\ bgpNeighbors[i].State = 0
          /\ bgpNeighbors[i].AcceptedPrefixes = 0
          /\ bgpNeighbors[i].ConnectionsEstablished # bgpNeighborConnectionsEstablished[neigh]

\* C10: the store never loses a record.  Every identity ever committed has a
\* record in the store, and a step changes a stored record only by committing
\* a record for that record's identity.
C10_StoreKeepsRecords ==
    [][/\ \A r \in everCommitted' :
             \E i \in 1..Len(bgpNeighbors') : Identity(bgpNeighbors'[i]) = Identity(r)
       /\ \A i \in 1..Len(bgpNeighbors) :
             /\ i <= Len(bgpNeighbors')
             /\ bgpNeighbors'[i] # bgpNeighbors[i] =>
                   /\ CommitStep
                   /\ Identity(commits'[Len(commits')]) = Identity(bgpNeighbors[i])]_vars

\* A neighbor stored and exported by an earlier poll is still stored,
\* unchanged, at the end of a poll whose text committed another neighbor only.
C10_Witness ==
    /\ pc = "return"
    /\ Len(commits) >= 1
    /\ \E i \in 1..Len(bgpNeighbors) :
          /\ Identity(bgpNeighbors[i]) \in FullLabels
          /\ Exported(Identity(bgpNeighbors[i])) = bgpNeighbors[i]
          /\ \A k \in 1..Len(commits) : commits[k].IP # bgpNeighbors[i].IP

\* --------------------------------------------------------------- C11 .. C20
\* C11: unrecognized and blank lines, wherever they stand in a text, change
\* nothing: the records committed and the store are, after every line, those
\* parseBGP obtains from the same texts without these lines (and so are the
\* address and the record it carries from line to line).
C11_UnrecognizedLinesIgnored ==
    InParse => /\ commits = plain.commits
               /\ bgpNeighbors = plain.bgpNeighbors
               /\ neigh = plain.neigh
               /\ bgpNeigh = plain.bgpNeigh

\* A text ends with an unrecognized line, read after the counters line that
\* committed an Established neighbor: the record is stored as committed.
C11_Witness ==
    /\ pc = "return"
    /\ line = OtherLine
    /\ sinceHeader = 1
    /\ Len(commits) = 1
    /\ commits[1].State = 6
    /\ latest.prefixes = NoLine
    /\ bgpNeighbors = commits
    /\ FullLabels = {}

\* C12: every record of the store, and every value of the bgp_neighbor_state
\* gauge, carries a session state between 1 and 6, whatever the texts were.
\* (Stated for the neighbors whose address is valid.)
C12_StateInRange ==
    /\ \A i \in 1..Len(bgpNeighbors) :
          bgpNeighbors[i].IP # NilIP => bgpNeighbors[i].State \in 1..6
    /\ \A x \in DOMAIN bgpNeighborState \ {NilString} : bgpNeighborState[x] \in 1..6

\* C13: when the range loop of line 79 has finished, each gauge has exactly
\* the identities ever committed as its labels, and the four values under the
\* label of each record of the store are that record's four values.
C13_ExportMatchesStore ==
    pc = "sleep" =>
        /\ \A vec \in {bgpNeighborState, bgpNeighborAcceptedPrefixes,
                        bgpNeighborConnectionsEstablished, bgpNeighborConnectionsDropped} :
              DOMAIN vec = {Identity(r) : r \in everCommitted}
        /\ \A i \in 1..Len(bgpNeighbors) :
              /\ Identity(bgpNeighbors[i]) \in FullLabels
              /\ Exported(Identity(bgpNeighbors[i])) = bgpNeighbors[i]

\* C14: a record is committed only if a state line and an accepted-prefixes
\* line were read since its header.  (Stated for headers with a valid address.)
C14_CommitNeedsAllFields ==
    [][(CommitStep /\ ParseIP(neigh') # NilIP)
         => (latest'.state # NoLine /\ latest'.prefixes # NoLine)]_vars

\* C15: every counters line read under a header with a valid address commits
\* the record built from the lines read since that header alone, and the store
\* then holds exactly one record for the address, which is that record; so
\* of several entries for one address in a text the last one committed is
\* what the store keeps, with nothing of the earlier ones.
C15_LastCommitWins ==
    [][(ParseStep /\ line'.kind = "counters" /\ ParseIP(neigh') # NilIP)
         => /\ commits' = Append(commits, Built(latest'))
            /\ Cardinality({i \in 1..Len(bgpNeighbors') :
                               Identity(bgpNeighbors'[i]) = neigh'}) = 1
            /\ \A i \in 1..Len(bgpNeighbors') :
                  Identity(bgpNeighbors'[i]) = neigh' => bgpNeighbors'[i] = Built(latest')]_vars

\* One text held two entries for the same address: the first, with state
\* Established, was committed; the second, a header and a counters line only,
\* was committed too, and the store holds the second record alone.
C15_Witness ==
    /\ pc = "return"
    /\ Len(commits) = 2
    /\ sinceHeader = 1
    /\ commits[1].IP = commits[2].IP
    /\ commits[1].IP # NilIP
    /\ commits[1].State = 6
    /\ commits[2].State = 0
    /\ commits[1].ConnectionsEstablished # commits[2].ConnectionsEstablished
    /\ bgpNeighbors = <<commits[2]>>

\* C16: a state, accepted-prefixes or counters line read while no header has
\* been read in this call changes neither the record in progress (there is
\* none) nor the store, and commits nothing.
C16_LinesBeforeHeaderIgnored ==
    [][(ParseStep /\ neigh' = EmptyString
          /\ line'.kind \in {"state", "prefixes", "counters"})
         => /\ bgpNeigh' = NilPtr
            /\ UNCHANGED <<bgpNeighbors, commits, everCommitted>>]_vars

\* A text began with a counters line (no header yet) while the store held a
\* neighbor from an earlier poll: the store still holds it, as exported.
C16_Witness ==
    /\ pc = "parse"
    /\ line.kind = "counters"
    /\ neigh = EmptyString
    /\ latest.header = NoLine
    /\ bgpNeigh = NilPtr
    /\ commits = <<>>
    /\ Len(bgpNeighbors) = 1
    /\ bgpNeighbors[1].IP # NilIP
    /\ Identity(bgpNeighbors[1]) \in FullLabels
    /\ Exported(Identity(bgpNeighbors[1])) = bgpNeighbors[1]

\* C17: every call of parseBGP starts with neigh "" and no record in progress;
\* so a first line that is no header commits nothing and leaves the store
\* alone, and every record committed under a valid address is built from
\* lines of this call, read since a header of this call.
C17_NoCarryOver ==
    [][/\ (pc' = "parse" /\ line' = NoLine) => (neigh' = EmptyString /\ bgpNeigh' = NilPtr)
       /\ (ParseStep /\ line = NoLine /\ line'.kind # "header")
            => (bgpNeigh' = NilPtr /\ commits' = <<>> /\ UNCHANGED bgpNeighbors)
       /\ CommitStep => latest'.header # NoLine
       /\ (CommitStep /\ ParseIP(neigh') # NilIP)
            => commits'[Len(commits')] = Built(latest')]_vars

\* The previous call ended on a header that had got a state line and no
\* counters line; this call read a counters line with no header before it:
\* nothing is committed and the store is still empty.
C17_Witness ==
    /\ pc = "parse"
    /\ line.kind = "counters"
    /\ neigh = EmptyString
    /\ bgpNeigh = NilPtr
    /\ left[1] # EmptyString
    /\ left[2] # NilPtr
    /\ left[2][1].State = 6
    /\ left[2][1].ConnectionsEstablished = 0
    /\ commits = <<>>
    /\ bgpNeighbors = <<>>

\* C18: an acquisition that was started comes to an end, by vtysh returning
\* or by a failure.
C18_AcquisitionEnds == (pc = "acquire") ~> (pc # "acquire")

\* The order of the phases of one iteration of the for of line 75.
PhaseOrder ==
    {<<"acquire", "parse">>, <<"acquire", "exited">>, <<"parse", "parse">>,
     <<"parse", "return">>, <<"return", "export">>, <<"export", "export">>,
     <<"export", "sleep">>, <<"sleep", "acquire">>}

C20_RecordExists == neigh # EmptyString => bgpNeigh # NilPtr

\* A header with an invalid address and then a state line were read: neigh is
\* "1.2.3" and the record in progress exists, with a nil IP and state 6.
C20_Witness ==
    /\ pc = "parse"
    /\ neigh = ABad
    /\ line.kind = "state"
    /\ bgpNeigh # NilPtr
    /\ bgpNeigh[1].IP = NilIP
    /\ bgpNeigh[1].State = 6

====
